---- MODULE Spec2Model ----
(***************************************************************************)
(* LS2D, src/src/read_ERA5.py: the large-scale forcings that               *)
(* Read_ERA.calculate_forcings derives from the ERA5 fields held by a      *)
(* Read_ERA instance.                                                      *)
(*                                                                         *)
(* Numbers are exact rationals <<numerator, denominator>> (denominator > 0,*)
(* lowest terms); every non-finite float (nan, +inf, -inf) is the one      *)
(* value NaN, which absorbs every operation.  Arrays keep numpy's          *)
(* semantics for slices (negative bounds wrap, bounds are clamped, an      *)
(* empty range is an empty array), for broadcasting and for the mean of an *)
(* empty array.                                                            *)
(***************************************************************************)
EXTENDS Bags, FiniteSets, Integers, Sequences, TLC

\* ---------------------------------------------------------------- bounds
NLon == 7
NLat == 7
NTime == 2
NFull == 2
MaxNav == 1
MaxCalls == 1
MaxSeq == 2
NHours == 4

\* ------------------------------------------------ float arithmetic (numpy)
NaN == <<0, 0>>

IsNaN(r) == r[2] = 0

Abs(x) == IF x < 0 THEN -x ELSE x

RECURSIVE GCD(_, _)
GCD(a, b) == IF b = 0 THEN a ELSE GCD(b, a % b)

Reduce(n, d, g) == <<n \div g, d \div g>>

\* the fraction n/d in lowest terms with a positive denominator
Rat(n, d) ==
    IF d = 0 THEN NaN
    ELSE Reduce(IF d < 0 THEN -n ELSE n, Abs(d), GCD(Abs(n), Abs(d)))

\* the canonical form of a value; stored values and compared values are
\* canonical, intermediate values need not be in lowest terms
Norm(r) == Rat(r[1], r[2])

R(n) == <<n, 1>>

RAdd(a, b) == <<a[1] * b[2] + b[1] * a[2], a[2] * b[2]>>

RNeg(a) == <<-a[1], a[2]>>

RSub(a, b) == <<a[1] * b[2] - b[1] * a[2], a[2] * b[2]>>

RMul(a, b) == <<a[1] * b[1], a[2] * b[2]>>

RDiv(a, b) ==
    IF a[2] = 0 \/ b[2] = 0 \/ b[1] = 0 THEN NaN
    ELSE IF b[1] < 0 THEN <<-(a[1] * b[2]), -(a[2] * b[1])>>
    ELSE <<a[1] * b[2], a[2] * b[1]>>

RAbs(a) == <<Abs(a[1]), a[2]>>

RLess(a, b) == a[1] * b[2] < b[1] * a[2]

\* ------------------------------------------------ numpy slices and shapes
\* an array held as a value (all its elements computed)
Array(f) == f @@ <<>>

\* a slice bound as Python normalises it against an axis of length n
PyBound(x, n) ==
    IF x < 0 THEN (IF x + n < 0 THEN 0 ELSE x + n)
    ELSE (IF x > n THEN n ELSE x)

\* the indices selected by start:stop on an axis of length n
Range(a, b) == IF b <= a THEN <<>> ELSE [m \in 1..(b - a) |-> a + m - 1]

PySlice(start, stop, n) == Range(PyBound(start, n), PyBound(stop, n))

\* the length the axis lengths in lens broadcast to; -1 when they do not
Broadcast(lens) ==
    IF lens \subseteq {1} THEN 1
    ELSE IF Cardinality(lens \ {1}) = 1 THEN CHOOSE l \in lens : l # 1
    ELSE -1

\* element m of an index list under broadcasting (a length-1 list repeats)
Pick(idx, m) == IF Len(idx) = 1 THEN idx[1] ELSE idx[m]

\* the mean of the n values of a list (summed pairwise): numpy's mean of an
\* empty array is nan
RECURSIVE RSum(_, _, _)
RSum(vals, lo, hi) ==
    IF lo = hi THEN Norm(vals[lo])
    ELSE Norm(RAdd(RSum(vals, lo, (lo + hi) \div 2), RSum(vals, ((lo + hi) \div 2) + 1, hi)))

MeanOf(vals, n) == IF n = 0 THEN NaN ELSE Norm(RDiv(RSum(vals, 1, n), R(n)))

\* ------------------------------------------------------- physical constants
Grav == 10
NPres == 3

\* metres per unit of longitude (at the central latitude) and of latitude
Metres == [lon |-> 2, lat |-> 3]

\* ------------------------------------------------------------------ state
VARIABLES
    settings, lats, self_i, self_j, fc, shape,
    z_mean, p_mean, thl_mean, qt_mean, u_mean, v_mean,
    dtthl_advec, dtqt_advec, dtu_advec, dtv_advec,
    ug, vg, dtu_coriolis, dtv_coriolis,
    ug_p, vg_p,
    last, ncalls,
    threads,
    files, e5, stage,
    disk, heap, download_queue, found, tasks, workers, logs

dataset == <<settings, lats, self_i, self_j, fc, shape>>

means == <<z_mean, p_mean, thl_mean, qt_mean, u_mean, v_mean>>

advec == <<dtthl_advec, dtqt_advec, dtu_advec, dtv_advec>>

geo == <<ug, vg>>

coriolis == <<dtu_coriolis, dtv_coriolis>>

results == <<means, advec, geo, coriolis>>

\* the locals ug_p, vg_p of the most recent call
frame == <<ug_p, vg_p>>

\* the files being read, the instance under construction and the stage its
\* constructor has reached
reader == <<files, e5, stage>>

downloader == <<disk, heap, download_queue, found, tasks, workers, logs>>

vars == <<dataset, results, frame, last, ncalls, threads, reader, downloader>>

Times == 0..(NTime - 1)
Levels == 0..(NFull - 1)
PLevels == 0..(NPres - 1)

\* an attribute that no call has assigned yet
Unset == <<>>

\* ------------------------------------------------- the fields of a dataset
lons == [ii \in 0..(NLon - 1) |-> ii]

\* the latitude axis of the files, in degrees: the value `at` at index jc and
\* `step` degrees from one index to the next
LatAxis(at, jc, step) == [jj \in 0..(NLat - 1) |-> at + step * (jj - jc)]

\* one degree apart, north to south (as ERA5 files store it) and south to north
LatsDescending(at, jc) == LatAxis(at, jc, -1)

LatsAscending(at, jc) == LatAxis(at, jc, 1)

\* np.abs(arr - x).argmin(): the first index of the value of arr nearest to x
argmin_abs(arr, n, x) ==
    CHOOSE m \in 0..(n - 1) :
        \A q \in 0..(n - 1) : Abs(arr[m] - x) <= Abs(arr[q] - x) /\ (q < m => Abs(arr[m] - x) < Abs(arr[q] - x))

\* np.sin(np.deg2rad(x)) for x in whole degrees between -180 and 180, by the
\* rational approximation 4x(180-x) / (40500 - x(180-x)) of the sine (exact
\* at 0, 30, 90, 150 and 180 degrees, within 0.002 of the sine elsewhere)
SinDeg(x) ==
    IF x >= 0 THEN Rat(4 * x * (180 - x), 40500 - x * (180 - x))
    ELSE RNeg(Rat(4 * (-x) * (180 + x), 40500 + x * (180 + x)))

\* the rotation rate of the earth, taken as the unit of fc (7.2921e-5 per second)
Omega == 1

\* (the Coriolis parameter without its sign)
Coriolis_abs(lat) == Norm(RAbs(RMul(R(2 * Omega), SinDeg(lat))))

\* self.fc = 2 * 7.2921e-5 * np.sin(np.deg2rad(settings['central_lat']))
Coriolis(lat) == Norm(RMul(R(2 * Omega), SinDeg(lat)))

\* metres east / north of the grid origin
X(ii) == Metres.lon * lons[ii]

Y(jj) == Metres.lat * lats[jj]

\* the gradients of the linear fields, per metre
Slope == [thl |-> [x |-> 1, y |-> 2], qt |-> [x |-> 3, y |-> -1], z_p |-> [x |-> -2, y |-> 1]]

Uniform(c0, t, k) == c0 + k + 2 * t

Linear(c0, bx, by, t, k, jj, ii) == c0 + k + 2 * t + bx * X(ii) + by * Y(jj)

Curved(c0, t, k, jj, ii) == c0 + k + ii * ii * ii + 2 * jj * jj + ii * jj * (1 + t + k)

Scalar(sh, c0, bx, by, t, k, jj, ii) ==
    CASE sh = 0 -> Uniform(c0, t, k)
      [] sh = 1 -> Linear(c0, bx, by, t, k, jj, ii)
      [] OTHER  -> Curved(c0, t, k, jj, ii)

thl(t, k, jj, ii) == R(Scalar(shape.s, 300, Slope.thl.x, Slope.thl.y, t, k, jj, ii))

qt(t, k, jj, ii) == R(Scalar((shape.s + 1) % 3, 5, Slope.qt.x, Slope.qt.y, t, k, jj, ii))

z_p(t, m, jj, ii) == R(Scalar((shape.s + 2) % 3, 100 * (m + 1), Slope.z_p.x, Slope.z_p.y, t, m, jj, ii))

UField(kind, t, k, jj, ii) ==
    CASE kind = "uni1" -> R(1 + k + t)
      [] kind = "uni2" -> R(2 * (1 + k + t))
      [] OTHER         -> R(1 + ii + 2 * jj * (k + 1) - t)

u(t, k, jj, ii) == UField(shape.u, t, k, jj, ii)

v(t, k, jj, ii) ==
    CASE shape.v = "zero" -> R(0)
      [] shape.v = "uni"  -> R(0 - 1 - k - t)
      [] OTHER            -> R(2 - jj + ii * (t + 1) + k)

PBase(t, k) == IF k = 0 THEN 12 - 4 * (t % 2) ELSE IF (t + k) % 2 = 1 THEN 6 ELSE 1

p(t, k, jj, ii) == R(PBase(t, k) + 9 * ((ii + jj) % 2))

z(t, k, jj, ii) == R(100 * (k + 1) + ii + 2 * jj + t)

p_p == [m \in PLevels |-> R(4 * (NPres - m) - 2)]

\* the 4-D field held in the attribute of the given name
Field(name, t, k, jj, ii) ==
    CASE name = "thl" -> thl(t, k, jj, ii)
      [] name = "qt"  -> qt(t, k, jj, ii)
      [] name = "u"   -> u(t, k, jj, ii)
      [] name = "v"   -> v(t, k, jj, ii)
      [] name = "z"   -> z(t, k, jj, ii)
      [] name = "p"   -> p(t, k, jj, ii)
      [] name = "z_p" -> z_p(t, k, jj, ii)

\* ------------------------------------------- spatial_tools, finite_difference
dlon(lonW, lonE, lat) == R(Metres.lon * (lonE - lonW))

dlat(latS, latN) == R(Metres.lat * (latN - latS))

grad2c(a, b, dx) == RDiv(RSub(b, a), RMul(R(2), dx))

grad4c(a, b, c, d, dx) ==
    RDiv(RSub(RAdd(RSub(a, RMul(R(8), b)), RMul(R(8), c)), d), RMul(R(12), dx))

\* ----------------------------------------------------------- class Slice
Slice(istart, iend, jstart, jend) ==
    [istart |-> istart, iend |-> iend, jstart |-> jstart, jend |-> jend]

\* Slice.__call__: the rows and columns of the window shifted by (dj, di)
SliceCall(s, dj, di) ==
    [J |-> PySlice(s.jstart + dj, s.jend + dj, NLat),
     I |-> PySlice(s.istart + di, s.iend + di, NLon)]

\* the shape a set of sliced arrays broadcasts to (-1: they do not)
Shape(sls) ==
    [J |-> Broadcast({Len(sl.J) : sl \in sls}), I |-> Broadcast({Len(sl.I) : sl \in sls})]

ShapeOK(sh) == sh.J >= 0 /\ sh.I >= 0

\* row and column position of the m-th element of an array of shape sh
RowOf(sh, m) == ((m - 1) \div sh.I) + 1

ColOf(sh, m) == ((m - 1) % sh.I) + 1

Elem(F, t, k, sl, a, b) == Field(F, t, k, Pick(sl.J, a), Pick(sl.I, b))

\* ( ... ).mean(axis=(2,3)) of an array expression of shape sh with
\* elements P[t, k, row, column], on the levels lev
Mean23(P, lev, sh) ==
    Array([t \in Times |-> Array([k \in lev |->
        MeanOf([m \in 1..(sh.J * sh.I) |-> P[t, k, RowOf(sh, m), ColOf(sh, m)]], sh.J * sh.I)])])

\* ----------------------------------------------------- calculate_forcings
\* s = Slice(istart, iend, jstart, jend) of the averaging domain
Window(n_av) == Slice(self_i - n_av, self_i + n_av + 1, self_j - n_av, self_j + n_av + 1)

\* F[center4d].mean(axis=(2,3))
MeanOver(F, c) ==
    Mean23([t \in Times, k \in Levels, a \in 1..Len(c.J), b \in 1..Len(c.I) |-> Elem(F, t, k, c, a, b)],
           Levels, Shape({c}))

WindowMean(F, n_av) == MeanOver(F, SliceCall(Window(n_av), 0, 0))

\* horizontal grid spacing
IndexOK(idx, n) == idx >= -n /\ idx < n

PyIndex(arr, idx, n) == arr[IF idx < 0 THEN idx + n ELSE idx]

SpacingOK ==
    /\ IndexOK(self_i - 1, NLon) /\ IndexOK(self_i + 1, NLon)
    /\ IndexOK(self_j - 1, NLat) /\ IndexOK(self_j + 1, NLat)

\* (the spacing taken as the whole distance between the two neighbours)
dx_whole == Norm(RAbs(dlon(PyIndex(lons, self_i - 1, NLon), PyIndex(lons, self_i + 1, NLon), lats[self_j])))

dx == Norm(RAbs(RDiv(dlon(PyIndex(lons, self_i - 1, NLon), PyIndex(lons, self_i + 1, NLon), lats[self_j]), R(2))))

dy == Norm(RAbs(RDiv(dlat(PyIndex(lats, self_j + 1, NLat), PyIndex(lats, self_j - 1, NLat)), R(2))))

\* the sliced arrays s(j, i) that the expressions of the methods index with
Views(s) ==
    [c   |-> SliceCall(s, 0, 0),
     xm1 |-> SliceCall(s, 0, -1), xp1 |-> SliceCall(s, 0, 1),
     yp1 |-> SliceCall(s, 1, 0),  ym1 |-> SliceCall(s, -1, 0),
     xm2 |-> SliceCall(s, 0, -2), xp2 |-> SliceCall(s, 0, 2),
     yp2 |-> SliceCall(s, 2, 0),  ym2 |-> SliceCall(s, -2, 0)]

Stencil2(w) == {w.c, w.xm1, w.xp1, w.yp1, w.ym1}

Stencil4(w) == {w.c, w.xm2, w.xm1, w.xp1, w.xp2, w.yp2, w.yp1, w.ym1, w.ym2}

\* the derivatives of S at one element of the window, as the methods take them:
\*   grad2c(S[s(0,-1)], S[s(0,+1)], dx)     grad2c(S[s(+1,0)], S[s(-1,0)], dy)
ddx2(S, t, k, w, a, b, hx) ==
    grad2c(Elem(S, t, k, w.xm1, a, b), Elem(S, t, k, w.xp1, a, b), hx)

ddy2(S, t, k, w, a, b, hy) ==
    grad2c(Elem(S, t, k, w.yp1, a, b), Elem(S, t, k, w.ym1, a, b), hy)

\*   grad4c(S[s(0,-2)], S[s(0,-1)], S[s(0,+1)], S[s(0,+2)], dx)
\*   grad4c(S[s(+2,0)], S[s(+1,0)], S[s(-1,0)], S[s(-2,0)], dy)
ddx4(S, t, k, w, a, b, hx) ==
    grad4c(Elem(S, t, k, w.xm2, a, b), Elem(S, t, k, w.xm1, a, b),
           Elem(S, t, k, w.xp1, a, b), Elem(S, t, k, w.xp2, a, b), hx)

ddy4(S, t, k, w, a, b, hy) ==
    grad4c(Elem(S, t, k, w.yp2, a, b), Elem(S, t, k, w.yp1, a, b),
           Elem(S, t, k, w.ym1, a, b), Elem(S, t, k, w.ym2, a, b), hy)

\* one element of  ( -u[s(0,0)] * grad(S along x) -
\*                   -v[s(0,0)] * grad(S along y) )
PointAdvec2(S, t, k, w, a, b, hx, hy) ==
    RSub(RMul(RNeg(Elem("u", t, k, w.c, a, b)), ddx2(S, t, k, w, a, b, hx)),
         RMul(RNeg(Elem("v", t, k, w.c, a, b)), ddy2(S, t, k, w, a, b, hy)))

PointAdvec4(S, t, k, w, a, b, hx, hy) ==
    RSub(RMul(RNeg(Elem("u", t, k, w.c, a, b)), ddx4(S, t, k, w, a, b, hx)),
         RMul(RNeg(Elem("v", t, k, w.c, a, b)), ddy4(S, t, k, w, a, b, hy)))

\* the advective tendency of S on the views w of the window, the array
\* expression having the shape sh
Advec2Of(S, w, hx, hy, sh) ==
    Mean23([t \in Times, k \in Levels, a \in 1..sh.J, b \in 1..sh.I |-> PointAdvec2(S, t, k, w, a, b, hx, hy)],
           Levels, sh)

Advec4Of(S, w, hx, hy, sh) ==
    Mean23([t \in Times, k \in Levels, a \in 1..sh.J, b \in 1..sh.I |-> PointAdvec4(S, t, k, w, a, b, hx, hy)],
           Levels, sh)

Advec2On(S, w, hx, hy) == Advec2Of(S, w, hx, hy, Shape(Stencil2(w)))

Advec4On(S, w, hx, hy) == Advec4Of(S, w, hx, hy, Shape(Stencil4(w)))

Advec2(S, n_av, hx, hy) == Advec2On(S, Views(Window(n_av)), hx, hy)

Advec4(S, n_av, hx, hy) == Advec4On(S, Views(Window(n_av)), hx, hy)

\* geostrophic wind on pressure levels: the local arrays vg_p and ug_p
\*   vg_p = (  grav / fc * grad2c(z_p[s(0,-1)], z_p[s(0,+1)], dx) ).mean(axis=(2,3))
\*   ug_p = ( -grav / fc * grad2c(z_p[s(+1,0)], z_p[s(-1,0)], dy) ).mean(axis=(2,3))
\* (the array expression having the shape sh)
Vg_p2Of(w, hx, sh) ==
    Mean23([t \in Times, m \in PLevels, a \in 1..sh.J, b \in 1..sh.I |->
               RMul(RDiv(R(Grav), fc), ddx2("z_p", t, m, w, a, b, hx))], PLevels, sh)

Ug_p2Of(w, hy, sh) ==
    Mean23([t \in Times, m \in PLevels, a \in 1..sh.J, b \in 1..sh.I |->
               RMul(RDiv(RNeg(R(Grav)), fc), ddy2("z_p", t, m, w, a, b, hy))], PLevels, sh)

Vg_p4Of(w, hx, sh) ==
    Mean23([t \in Times, m \in PLevels, a \in 1..sh.J, b \in 1..sh.I |->
               RMul(RDiv(R(Grav), fc), ddx4("z_p", t, m, w, a, b, hx))], PLevels, sh)

Ug_p4Of(w, hy, sh) ==
    Mean23([t \in Times, m \in PLevels, a \in 1..sh.J, b \in 1..sh.I |->
               RMul(RDiv(RNeg(R(Grav)), fc), ddy4("z_p", t, m, w, a, b, hy))], PLevels, sh)

\* (the eastern neighbour read from z, the height of the model levels)
Vg_p2On_z(w, hx) ==
    Mean23([t \in Times, m \in PLevels, a \in 1..Len(w.c.J), b \in 1..Len(w.c.I) |->
               RMul(RDiv(R(Grav), fc),
                    grad2c(Elem("z_p", t, m, w.xm1, a, b), Elem("z", t, m, w.xp1, a, b), hx))],
           PLevels, Shape({w.xm1, w.xp1}))

Vg_p2On(w, hx) == Vg_p2Of(w, hx, Shape({w.xm1, w.xp1}))

Ug_p2On(w, hy) == Ug_p2Of(w, hy, Shape({w.yp1, w.ym1}))

Vg_p4On(w, hx) == Vg_p4Of(w, hx, Shape({w.xm2, w.xm1, w.xp1, w.xp2}))

Ug_p4On(w, hy) == Ug_p4Of(w, hy, Shape({w.yp2, w.yp1, w.ym1, w.ym2}))

\* the branch of the method: the locals ug_p, vg_p
Ug_p(n_av, method, hy) ==
    IF method = "2nd" THEN Ug_p2On(Views(Window(n_av)), hy) ELSE Ug_p4On(Views(Window(n_av)), hy)

Vg_p(n_av, method, hx) ==
    IF method = "2nd" THEN Vg_p2On(Views(Window(n_av)), hx) ELSE Vg_p4On(Views(Window(n_av)), hx)

\* whether every array expression of the method broadcasts (else ValueError)
BroadcastOK(n_av, method) ==
    CASE method = "2nd" -> ShapeOK(Shape(Stencil2(Views(Window(n_av)))))
      [] method = "4th" -> ShapeOK(Shape(Stencil4(Views(Window(n_av)))))
      [] OTHER          -> TRUE

\* scipy.interpolate.interp1d(x, y, fill_value='extrapolate'): x and y sorted by x
Rank(x, m) == Cardinality({q \in DOMAIN x : RLess(x[q], x[m])})

Sorted(x, y) == Array([r \in 0..(Cardinality(DOMAIN x) - 1) |-> y[CHOOSE m \in DOMAIN x : Rank(x, m) = r]])

interp1d(x, y) == [x |-> Sorted(x, x), y |-> Sorted(x, y)]

\* the interpolant called on x_new: x_new is located among the sorted x, the
\* index is clipped to 1..n-1 and the line through the two bracketing nodes
\* is evaluated (so values outside the range of x are extrapolated)
Clip(q, lo, hi) == IF q < lo THEN lo ELSE IF q > hi THEN hi ELSE q

Bracket(xs, x_new) == Clip(Cardinality({r \in DOMAIN xs : RLess(xs[r], x_new)}), 1, Cardinality(DOMAIN xs) - 1)

\* (the line anchored at the upper node's value)
LineAt_upper(xs, ys, hi, x_new) ==
    Norm(RAdd(Norm(RMul(Norm(RDiv(RSub(ys[hi], ys[hi - 1]), RSub(xs[hi], xs[hi - 1]))),
                        RSub(x_new, xs[hi - 1]))),
              ys[hi]))

LineAt(xs, ys, hi, x_new) ==
    Norm(RAdd(Norm(RMul(Norm(RDiv(RSub(ys[hi], ys[hi - 1]), RSub(xs[hi], xs[hi - 1]))),
                        RSub(x_new, xs[hi - 1]))),
              ys[hi - 1]))

interp1d_call(f, x_new) == IF IsNaN(x_new) THEN NaN ELSE LineAt(f.x, f.y, Bracket(f.x, x_new), x_new)

InterpRow(f, xrow) == Array([k \in DOMAIN xrow |-> interp1d_call(f, xrow[k])])

\* the result attributes of the instance, as one record
Attrs ==
    [z_mean |-> z_mean, p_mean |-> p_mean, thl_mean |-> thl_mean, qt_mean |-> qt_mean,
     u_mean |-> u_mean, v_mean |-> v_mean,
     dtthl_advec |-> dtthl_advec, dtqt_advec |-> dtqt_advec,
     dtu_advec |-> dtu_advec, dtv_advec |-> dtv_advec,
     ug |-> ug, vg |-> vg, dtu_coriolis |-> dtu_coriolis, dtv_coriolis |-> dtv_coriolis]

\* 1. mean values central averaging domain
MeansStep(a, n_av) ==
    [a EXCEPT !.z_mean = WindowMean("z", n_av), !.p_mean = WindowMean("p", n_av),
              !.thl_mean = WindowMean("thl", n_av), !.qt_mean = WindowMean("qt", n_av),
              !.u_mean = WindowMean("u", n_av), !.v_mean = WindowMean("v", n_av)]

\* the branch of the method: advective tendencies
AdvecStep(a, n_av, method, hx, hy) ==
    CASE method = "2nd" ->
            [a EXCEPT !.dtthl_advec = Advec2("thl", n_av, hx, hy), !.dtqt_advec = Advec2("qt", n_av, hx, hy),
                      !.dtu_advec = Advec2("u", n_av, hx, hy), !.dtv_advec = Advec2("v", n_av, hx, hy)]
      [] method = "4th" ->
            [a EXCEPT !.dtthl_advec = Advec4("thl", n_av, hx, hy), !.dtqt_advec = Advec4("qt", n_av, hx, hy),
                      !.dtu_advec = Advec4("u", n_av, hx, hy), !.dtv_advec = Advec4("v", n_av, hx, hy)]
      [] OTHER -> a

\* self.ug = np.zeros_like(self.p_mean); self.vg = np.zeros_like(self.p_mean)
ZeroStep(a) ==
    [a EXCEPT !.ug = Array([t \in Times |-> Array([k \in Levels |-> R(0)])]),
              !.vg = Array([t \in Times |-> Array([k \in Levels |-> R(0)])])]

\* for t in range(self.ntime): interpolate ug_p[t,:], vg_p[t,:] onto self.p_mean[t,:]
InterpStep(a, lug, lvg) ==
    [a EXCEPT !.ug = Array([t \in Times |-> InterpRow(interp1d(p_p, lug[t]), a.p_mean[t])]),
              !.vg = Array([t \in Times |-> InterpRow(interp1d(p_p, lvg[t]), a.p_mean[t])])]

\* (dtv_coriolis with the sign of dtu_coriolis)
CoriolisStep_plus(a) ==
    [a EXCEPT !.dtu_coriolis = Array([t \in Times |-> Array([k \in Levels |->
                                   Norm(RMul(fc, RSub(a.v_mean[t][k], a.vg[t][k])))])]),
              !.dtv_coriolis = Array([t \in Times |-> Array([k \in Levels |->
                                   Norm(RMul(fc, RSub(a.u_mean[t][k], a.ug[t][k])))])])]

\* momentum tendency coriolis
CoriolisStep(a) ==
    [a EXCEPT !.dtu_coriolis = Array([t \in Times |-> Array([k \in Levels |->
                                   Norm(RMul(fc, RSub(a.v_mean[t][k], a.vg[t][k])))])]),
              !.dtv_coriolis = Array([t \in Times |-> Array([k \in Levels |->
                                   Norm(RMul(RNeg(fc), RSub(a.u_mean[t][k], a.ug[t][k])))])])]

\* how a call ends, the attributes it leaves behind and its locals ug_p, vg_p
Ended(a, lug, lvg, outcome) == [self |-> a, ug_p |-> lug, vg_p |-> lvg, outcome |-> outcome]

\* ... from the interpolation loop on
ExecInterp(a, lug, lvg) == Ended(CoriolisStep(InterpStep(a, lug, lvg)), lug, lvg, "ok")

\* ... from the branch on the method on
ExecMethod(a, n_av, method, hx, hy) ==
    IF ~BroadcastOK(n_av, method) THEN Ended(a, Unset, Unset, "ValueError")
    ELSE IF method \notin {"2nd", "4th"}
         THEN Ended(ZeroStep(a), Unset, Unset, "UnboundLocalError")
         ELSE ExecInterp(ZeroStep(AdvecStep(a, n_av, method, hx, hy)),
                         Ug_p(n_av, method, hy), Vg_p(n_av, method, hx))

\* ... from the grid spacing on
ExecSpacing(a, n_av, method) ==
    IF ~SpacingOK THEN Ended(a, Unset, Unset, "IndexError")
    ELSE ExecMethod(a, n_av, method, dx, dy)

\* the whole call, started with the attributes a
Exec(a, n_av, method) == ExecSpacing(MeansStep(a, n_av), n_av, method)

\* ------------------------------------------------------------ the machine
NAvs == 0..MaxNav

Methods == {"2nd", "4th", "box"}

Mid(n) == n \div 2

Winds == {<<"uni1", "zero">>, <<"uni2", "zero">>, <<"uni1", "uni">>, <<"var", "var">>}

\* the datasets explored: the requested centre at 30 degrees north on the
\* grid point in the middle of the grid, with every field shape and wind on
\* a north-to-south latitude axis and every field shape on a south-to-north
\* one; requested centres at 30 degrees south and on the equator; requested
\* centres on the grid points along the row through the middle of the grid
\* and at both ends of the column through it; a requested centre half way
\* between two grid rows; and requested centres at the poles, on the first
\* and on the last grid row
Datasets ==
    {[lats |-> LatsDescending(30, Mid(NLat)), central_lat |-> 30, central_lon |-> Mid(NLon),
      shape |-> [s |-> sh, u |-> w[1], v |-> w[2]]] : sh \in 0..2, w \in Winds}
    \cup
    {[lats |-> LatsAscending(30, Mid(NLat)), central_lat |-> 30, central_lon |-> Mid(NLon),
      shape |-> [s |-> sh, u |-> w[1], v |-> w[2]]] : sh \in 0..2, w \in {<<"var", "var">>, <<"uni1", "zero">>}}
    \cup
    {[lats |-> LatsDescending(c, Mid(NLat)), central_lat |-> c, central_lon |-> Mid(NLon),
      shape |-> [s |-> sh, u |-> "var", v |-> "var"]] : c \in {-30, 0}, sh \in 0..1}
    \cup
    {[lats |-> LatsDescending(30, c[2]), central_lat |-> 30, central_lon |-> c[1],
      shape |-> [s |-> 2, u |-> "var", v |-> "var"]] :
        c \in {cc \in (0..(NLon - 1)) \X (0..(NLat - 1)) :
                  cc[2] = Mid(NLat) \/ (cc[1] = Mid(NLon) /\ cc[2] \in {0, NLat - 1})}}
    \cup
    {[lats |-> LatAxis(31, Mid(NLat), -2), central_lat |-> 30, central_lon |-> Mid(NLon),
      shape |-> [s |-> 2, u |-> "var", v |-> "var"]]}
    \cup
    {[lats |-> LatsDescending(90, 0), central_lat |-> 90, central_lon |-> Mid(NLon),
      shape |-> [s |-> 2, u |-> "var", v |-> "var"]],
     [lats |-> LatsDescending(-90, NLat - 1), central_lat |-> -90, central_lon |-> Mid(NLon),
      shape |-> [s |-> 2, u |-> "var", v |-> "var"]]}

\* no forcing is calculated yet
NoResults ==
    /\ z_mean = Unset /\ p_mean = Unset /\ thl_mean = Unset /\ qt_mean = Unset
    /\ u_mean = Unset /\ v_mean = Unset
    /\ dtthl_advec = Unset /\ dtqt_advec = Unset /\ dtu_advec = Unset /\ dtv_advec = Unset
    /\ ug = Unset /\ vg = Unset /\ dtu_coriolis = Unset /\ dtv_coriolis = Unset
    /\ ug_p = Unset /\ vg_p = Unset
    /\ last = [n_av |-> 0, method |-> "none", outcome |-> "none", again |-> FALSE]
    /\ ncalls = 0

\* download_ERA5 is not called
NotDownloading ==
    /\ disk = {} /\ heap = <<>> /\ download_queue = <<>> /\ found = {}
    /\ tasks = <<>> /\ workers = EmptyBag /\ logs = {}

\* the constructor has returned (its steps are followed in SpecRead)
Constructed == files = Unset /\ e5 = Unset /\ stage = "done"

\* Read_ERA(settings): a dataset of D is in memory, no forcing is calculated yet
Loaded(D) ==
    /\ \E d \in D :
          /\ settings = [central_lat |-> d.central_lat, central_lon |-> d.central_lon]
          /\ lats = d.lats /\ shape = d.shape
          /\ self_i = argmin_abs(lons, NLon, d.central_lon)
          /\ self_j = argmin_abs(d.lats, NLat, d.central_lat)
          /\ fc = Coriolis(d.central_lat)
    /\ NoResults
    /\ Constructed
    /\ NotDownloading

Init == Loaded(Datasets) /\ threads = <<>>

Store(a) ==
    /\ z_mean' = a.z_mean /\ p_mean' = a.p_mean /\ thl_mean' = a.thl_mean /\ qt_mean' = a.qt_mean
    /\ u_mean' = a.u_mean /\ v_mean' = a.v_mean
    /\ dtthl_advec' = a.dtthl_advec /\ dtqt_advec' = a.dtqt_advec
    /\ dtu_advec' = a.dtu_advec /\ dtv_advec' = a.dtv_advec
    /\ ug' = a.ug /\ vg' = a.vg
    /\ dtu_coriolis' = a.dtu_coriolis /\ dtv_coriolis' = a.dtv_coriolis

\* the call returns (or raises): r is what Exec found; last records the call,
\* and whether it repeats the arguments of the call before it
Return(r, n_av, method) ==
    /\ Store(r.self)
    /\ ug_p' = r.ug_p /\ vg_p' = r.vg_p
    /\ last' = [n_av |-> n_av, method |-> method, outcome |-> r.outcome,
                 again |-> (last.outcome # "none" /\ last.n_av = n_av /\ last.method = method)]

\* (the call turning the sign of self.fc)
ReadOnly_fc == fc' = RNeg(fc) /\ UNCHANGED <<settings, lats, self_i, self_j, shape, reader>>

\* the call assigns to none of the attributes the constructor has set
ReadOnly == UNCHANGED <<dataset, reader>>

calculate_forcings(n_av, method) ==
    /\ Return(Exec(Attrs, n_av, method), n_av, method)
    /\ ncalls' = ncalls + 1
    /\ ReadOnly
    /\ UNCHANGED <<threads, downloader>>

Next == \E n_av \in NAvs, method \in Methods : ncalls < MaxCalls /\ calculate_forcings(n_av, method)

Spec == Init /\ [][Next]_vars

\* --------------------------------------- calls in sequence on one instance
\* the values of n_av a caller can pass: nothing keeps them from being negative
AnyNAvs == -1..MaxNav

\* requested centres in the middle of the grid with each field shape, on
\* the equator, and on the last grid column
SeqDatasets ==
    {[lats |-> LatsDescending(30, Mid(NLat)), central_lat |-> 30, central_lon |-> Mid(NLon),
      shape |-> [s |-> sh, u |-> "var", v |-> "var"]] : sh \in 0..2}
    \cup
    {[lats |-> LatsDescending(0, Mid(NLat)), central_lat |-> 0, central_lon |-> Mid(NLon),
      shape |-> [s |-> 2, u |-> "var", v |-> "var"]],
     [lats |-> LatsDescending(30, Mid(NLat)), central_lat |-> 30, central_lon |-> NLon - 1,
      shape |-> [s |-> 2, u |-> "var", v |-> "var"]]}

InitSeq == Loaded(SeqDatasets) /\ threads = <<>>

NextSeq == \E n_av \in AnyNAvs, method \in Methods : ncalls < MaxSeq /\ calculate_forcings(n_av, method)

SpecSeq == InitSeq /\ [][NextSeq]_vars

\* ------------------------------------- two calls running on one instance
\* Each call runs in a thread of its own and stores into the attributes of the
\* instance it was called on; the threads interleave between the stages of
\* the method body.  A call delivers the result attributes the instance has
\* when the call returns (or raises).
Requests == {[n_av |-> n, method |-> m] : n \in NAvs, m \in Methods}

\* a call that has just been entered: its arguments, its position, its locals
Entered(rq) ==
    [n_av |-> rq.n_av, method |-> rq.method, pc |-> "means",
     ug_p |-> Unset, vg_p |-> Unset, outcome |-> "none", delivered |-> Unset]

ConcDatasets ==
    {[lats |-> LatsDescending(30, Mid(NLat)), central_lat |-> 30, central_lon |-> Mid(NLon),
      shape |-> [s |-> sh, u |-> "var", v |-> "var"]] : sh \in {0, 2}}

InitConc ==
    /\ Loaded(ConcDatasets)
    /\ \E r1, r2 \in Requests : r1 # r2 /\ threads = <<Entered(r1), Entered(r2)>>

\* the call of thread th moves on to stage pc, having stored the attributes a
Goto(th, a, pc) ==
    /\ Store(a)
    /\ threads' = [threads EXCEPT ![th].pc = pc]

\* the call of thread th ends, the instance holding the attributes a
Finish(th, a, outcome) ==
    /\ Store(a)
    /\ threads' = [threads EXCEPT ![th].pc = "done", ![th].outcome = outcome, ![th].delivered = a]

\* 1. mean values central averaging domain
TMeans(th) ==
    /\ threads[th].pc = "means"
    /\ Goto(th, MeansStep(Attrs, threads[th].n_av), "method")
    /\ UNCHANGED <<dataset, frame, last, ncalls, reader, downloader>>

\* grid spacing and the branch of the method
TMethod(th) ==
    /\ threads[th].pc = "method"
    /\ IF ~SpacingOK THEN Finish(th, Attrs, "IndexError")
       ELSE IF ~BroadcastOK(threads[th].n_av, threads[th].method) THEN Finish(th, Attrs, "ValueError")
       ELSE IF threads[th].method \notin {"2nd", "4th"} THEN Goto(th, Attrs, "interp")
       ELSE /\ Store(AdvecStep(Attrs, threads[th].n_av, threads[th].method, dx, dy))
            /\ threads' = [threads EXCEPT ![th].pc = "interp",
                                          ![th].ug_p = Ug_p(threads[th].n_av, threads[th].method, dy),
                                          ![th].vg_p = Vg_p(threads[th].n_av, threads[th].method, dx)]
    /\ UNCHANGED <<dataset, frame, last, ncalls, reader, downloader>>

\* zeros_like and the interpolation loop (which reads self.p_mean and the
\* locals ug_p, vg_p: unbound when no branch of the method was taken)
TInterp(th) ==
    /\ threads[th].pc = "interp"
    /\ IF threads[th].method \notin {"2nd", "4th"} THEN Finish(th, ZeroStep(Attrs), "UnboundLocalError")
       ELSE Goto(th, InterpStep(ZeroStep(Attrs), threads[th].ug_p, threads[th].vg_p), "coriolis")
    /\ UNCHANGED <<dataset, frame, last, ncalls, reader, downloader>>

\* momentum tendency coriolis (which reads self.u_mean, self.v_mean, self.ug, self.vg)
TCoriolis(th) ==
    /\ threads[th].pc = "coriolis"
    /\ Finish(th, CoriolisStep(Attrs), "ok")
    /\ UNCHANGED <<dataset, frame, last, ncalls, reader, downloader>>

NextConc ==
    \/ \E th \in DOMAIN threads : TMeans(th)
    \/ \E th \in DOMAIN threads : TMethod(th)
    \/ \E th \in DOMAIN threads : TInterp(th)
    \/ \E th \in DOMAIN threads : TCoriolis(th)

SpecConc == InitConc /\ [][NextConc]_vars

\* ------------------------------------------------------ Read_ERA.__init__
\* The constructor, stage by stage.  Times are whole hours since the first
\* analysis record; the merged time axes of the analysis and of the forecast
\* files are hourly.  A field read from a file is known by the hours of its
\* records.
Size(arr) == Cardinality(DOMAIN arr)

TimeAxis(first, n) == [m \in 0..(n - 1) |-> first + m]

\* arr[t0:t1+1] for the slice t = np.s_[t0:t1+1]
Sliced(arr, t) ==
    [m \in 1..Len(PySlice(t[1], t[2] + 1, Size(arr))) |-> arr[PySlice(t[1], t[2] + 1, Size(arr))[m]]]

\* the files of a case: the analysis starts at hour 0, the forecast before,
\* at or after it, and the model-level files hold NFull levels or one more
ReadInputs ==
    {[an_time |-> TimeAxis(0, NHours), fc_time |-> TimeAxis(f0, nf),
      latitude |-> LatsDescending(30, Mid(NLat)), level |-> nl] :
        f0 \in {-2, 0, 1}, nf \in {NHours, NHours + 2}, nl \in {NFull, NFull + 1}}

\* surface pressure and virtual temperature of the analysis record of hour h
ps(h, la, lo) == R(NFull * (2 + (h % 2) + ((la + lo) % 3)))

Tv(h, k, la, lo) == R(2 + ((h + k + la) % 2))

\* the instance before its constructor has set anything
NewInstance ==
    [t_an |-> Unset, t_fc |-> Unset, time |-> Unset, time_fc |-> Unset, time_sec |-> Unset,
     nfull |-> Unset, nhalf |-> Unset, ntime |-> Unset, levs |-> Unset, dTdt_sw |-> Unset,
     ph |-> Unset, zh |-> Unset, p |-> Unset, z |-> Unset, dthldt_sw |-> Unset, outcome |-> "none"]

\* settings with start_date <= end_date, from an hour before the analysis
\* axis to an hour after it
InitRead ==
    /\ files \in ReadInputs
    /\ \E a, b \in -1..NHours :
          /\ a <= b
          /\ settings = [central_lat |-> 30, central_lon |-> Mid(NLon), start_date |-> a, end_date |-> b]
    /\ e5 = NewInstance /\ stage = "times"
    /\ lats = Unset /\ self_i = Unset /\ self_j = Unset /\ fc = Unset
    /\ shape = [s |-> 2, u |-> "var", v |-> "var"]
    /\ NoResults /\ threads = <<>>
    /\ NotDownloading

\* the constructor raises
Raise(outcome) == e5' = [e5 EXCEPT !.outcome = outcome] /\ stage' = "failed"

\* time slices and the time variables
Selected(t_an, t_fc, time) ==
    IF Len(time) = 0 THEN Raise("IndexError")
    ELSE /\ e5' = [e5 EXCEPT !.t_an = t_an, !.t_fc = t_fc, !.time = time,
                             !.time_fc = Sliced(files.fc_time, t_fc),
                             !.time_sec = [m \in 1..Len(time) |-> (time[m] - time[1]) * 3600]]
         /\ stage' = "sync"

\* t0 and t1 of an axis: the records nearest to the start and to the end hour
SelectTimes ==
    /\ stage = "times"
    /\ Selected(<<argmin_abs(files.an_time, Size(files.an_time), settings.start_date),
                  argmin_abs(files.an_time, Size(files.an_time), settings.end_date)>>,
                <<argmin_abs(files.fc_time, Size(files.fc_time), settings.start_date),
                  argmin_abs(files.fc_time, Size(files.fc_time), settings.end_date)>>,
                Sliced(files.an_time, <<argmin_abs(files.an_time, Size(files.an_time), settings.start_date),
                                        argmin_abs(files.an_time, Size(files.an_time), settings.end_date)>>))
    /\ lats' = files.latitude
    /\ UNCHANGED <<files, settings, self_i, self_j, fc, shape, results, frame, last, ncalls, threads, downloader>>

\* (only the lengths of the two time axes compared)
TimesSynced_len(a, b) == IF Len(a) = Len(b) THEN {"ok"} ELSE {"AssertionError"}

\* assert np.all(self.time == self.time_fc): how the statement can end.  Two
\* arrays whose lengths do not broadcast compare as False (numpy before 1.25)
\* or the comparison raises (numpy 1.25 and later)
TimesSynced(a, b) ==
    IF Broadcast({Len(a), Len(b)}) = -1 THEN {"AssertionError", "ValueError"}
    ELSE IF \A m \in 1..Broadcast({Len(a), Len(b)}) : Pick(a, m) = Pick(b, m) THEN {"ok"}
    ELSE {"AssertionError"}

CheckSync ==
    /\ stage = "sync"
    /\ \E o \in TimesSynced(e5.time, e5.time_fc) :
          IF o = "ok" THEN e5' = e5 /\ stage' = "fields" ELSE Raise(o)
    /\ UNCHANGED <<files, dataset, results, frame, last, ncalls, threads, downloader>>

\* grid and time dimensions, the nearest grid point, and the full fields:
\* analysis and forecast variables are both indexed with t_an
ReadFields ==
    /\ stage = "fields"
    /\ e5' = [e5 EXCEPT !.nfull = files.level, !.nhalf = files.level + 1, !.ntime = Len(e5.time),
                        !.levs = [ingested |-> files.level, Tv |-> files.level],
                        !.dTdt_sw = Sliced(files.fc_time, e5.t_an)]
    /\ self_i' = argmin_abs(lons, NLon, settings.central_lon)
    /\ self_j' = argmin_abs(lats, NLat, settings.central_lat)
    /\ stage' = "half"
    /\ UNCHANGED <<files, settings, lats, fc, shape, results, frame, last, ncalls, threads, downloader>>

\* the columns (t, la, lo) of a 4-d array of ntime records
Cols(ntime) == (0..(ntime - 1)) \X (0..(NLat - 1)) \X (0..(NLon - 1))

\* half-level pressure a_k + b_k * ps from the coefficient table of NFull + 1
\* half levels, bottom to top: a_k = k, b_k = (NFull - k) / NFull
calc_half_level_pressure(p_s) ==
    [k \in 0..NFull |-> Norm(RAdd(R(k), RMul(Rat(NFull - k, NFull), p_s)))]

Rd == 20

\* the height of half level k by hydrostatic integration upward from z = 0 at
\* the surface, with the virtual temperature of the enclosing full level and
\* the log-pressure thickness ln(a / b) of a layer taken as 2 (a - b) / (a + b)
RECURSIVE calc_half_level_Zg(_, _, _)
calc_half_level_Zg(ph_col, Tv_col, k) ==
    IF k = 0 THEN R(0)
    ELSE Norm(RAdd(calc_half_level_Zg(ph_col, Tv_col, k - 1),
                   RMul(RMul(Rat(Rd, Grav), Tv_col[k - 1]),
                        Norm(RDiv(RMul(R(2), RSub(ph_col[k - 1], ph_col[k])), RAdd(ph_col[k - 1], ph_col[k]))))))

\* self.ph[t,:,la,lo] = ...; self.zh[t,:,la,lo] = ...  for every column
HalfLevelsOf(ph) ==
    [e5 EXCEPT !.ph = ph,
               !.zh = [c \in DOMAIN ph |->
                          [k \in DOMAIN ph[c] |->
                              calc_half_level_Zg(ph[c], [l \in 0..(e5.nfull - 1) |-> Tv(e5.time[c[1] + 1], l, c[2], c[3])], k)]]]

\* the zeros arrays are filled column by column; a column of nhalf entries
\* takes no array of another length (ValueError in the first column)
HalfLevels ==
    /\ stage = "half"
    /\ IF e5.nhalf # NFull + 1
       THEN /\ e5' = [e5 EXCEPT !.ph = [c \in Cols(e5.ntime) |-> [k \in 0..(e5.nhalf - 1) |-> R(0)]],
                                !.zh = [c \in Cols(e5.ntime) |-> [k \in 0..(e5.nhalf - 1) |-> R(0)]],
                                !.outcome = "ValueError"]
            /\ stage' = "failed"
       ELSE /\ e5' = HalfLevelsOf([c \in Cols(e5.ntime) |->
                                      calc_half_level_pressure(ps(e5.time[c[1] + 1], c[2], c[3]))])
            /\ stage' = "full"
    /\ UNCHANGED <<files, dataset, results, frame, last, ncalls, threads, downloader>>

\* (the full level taken as the half level below it)
FullLevel_below(h, nhalf) == [k \in 0..(Len(PySlice(0, -1, nhalf)) - 1) |-> h[PySlice(0, -1, nhalf)[k + 1]]]

\* 0.5 * (h[1:] + h[:-1]) along the level axis of one column
FullLevel(h, nhalf) ==
    [k \in 0..(Broadcast({Len(PySlice(1, nhalf, nhalf)), Len(PySlice(0, -1, nhalf))}) - 1) |->
        Norm(RMul(Rat(1, 2), RAdd(h[Pick(PySlice(1, nhalf, nhalf), k + 1)], h[Pick(PySlice(0, -1, nhalf), k + 1)])))]

\* the number of levels of the quantities derived on full levels
DerivedLevs(l, np) ==
    [ingested |-> l.ingested, Tv |-> l.Tv, p |-> np, z |-> np, exn |-> np,
     th |-> Broadcast({l.ingested, np}), thl |-> Broadcast({l.ingested, np}),
     rho |-> Broadcast({np, l.Tv}), wls |-> Broadcast({l.ingested, np, l.Tv}), U |-> l.ingested]

\* full level pressure and height, and the quantities derived from them
FullLevels ==
    /\ stage = "full"
    /\ e5' = [e5 EXCEPT !.p = [c \in DOMAIN e5.ph |-> FullLevel(e5.ph[c], e5.nhalf)],
                        !.z = [c \in DOMAIN e5.zh |-> FullLevel(e5.zh[c], e5.nhalf)],
                        !.levs = DerivedLevs(e5.levs, Size(FullLevel(e5.ph[<<0, 0, 0>>], e5.nhalf)))]
    /\ stage' = "tendencies"
    /\ UNCHANGED <<files, dataset, results, frame, last, ncalls, threads, downloader>>

\* the Coriolis parameter, and dTdt / self.exn: record m of the tendency is
\* the forecast record of hour fc_hour over the exner function of the analysis
\* record of hour an_hour
Tendencies ==
    /\ stage = "tendencies"
    /\ fc' = Coriolis(settings.central_lat)
    /\ IF Broadcast({Len(e5.dTdt_sw), e5.ntime}) = -1 THEN Raise("ValueError")
       ELSE /\ e5' = [e5 EXCEPT !.dthldt_sw =
                         [m \in 1..Broadcast({Len(e5.dTdt_sw), e5.ntime}) |->
                             [fc_hour |-> Pick(e5.dTdt_sw, m), an_hour |-> Pick(e5.time, m)]]]
            /\ stage' = "done"
    /\ UNCHANGED <<files, settings, lats, self_i, self_j, shape, results, frame, last, ncalls, threads, downloader>>

NextRead ==
    \/ SelectTimes
    \/ CheckSync
    \/ ReadFields
    \/ HalfLevels
    \/ FullLevels
    \/ Tendencies

SpecRead == InitRead /\ [][NextRead]_vars

\* ------------------------------------------------- download_ERA5.py
\* Times are whole hours since 00 UTC of day 0; files are downloaded as
\* blocks of a day.
NDays == 1

MaxQueue == 4

MaxRaises == 1

DayHours == 24

FcStart == 6

\* processes of the pool
Processes == 4

\* time_tools.lower_to_hour: times of the model are whole hours already
Day(hour) == hour \div DayHours

\* time_tools.get_required_analysis: the days of the blocks 00 UTC to 23 UTC
\* that hold the hours start..end
get_required_analysis(start, end) ==
    [n \in 1..(Day(end) - Day(start) + 1) |-> Day(start) + n - 1]

\* time_tools.get_required_forecast: the days of the blocks 06 UTC to 05 UTC
\* next day that hold the hours start..end
get_required_forecast(start, end) ==
    [n \in 1..(Day(end - FcStart) - Day(start - FcStart) + 1) |-> Day(start - FcStart) + n - 1]

\* conventions.ERA5_file_path: one NetCDF file per day, case and file type
ERA5_file_path(date, path, case, ftype) == <<path, case, date, ftype, "nc">>

\* the <<date, ftype>> pairs in the order of the two loops
Required(an_dates, fc_dates) ==
    LET ftypes == <<"model_an", "pressure_an", "surface_an">>
    IN  [n \in 1..(Len(an_dates) * Len(ftypes)) |->
            <<an_dates[((n - 1) \div Len(ftypes)) + 1], ftypes[((n - 1) % Len(ftypes)) + 1]>>]
        \o [n \in 1..Len(fc_dates) |-> <<fc_dates[n], "model_fc">>]

\* the settings of an experiment of at most NDays days of analysis, and the
\* output directory as the caller wrote it; at most MaxQueue of its files
\* are not on disk, and at most MaxRaises retrievals raise
DownloadSettings ==
    {[central_lat |-> 30, central_lon |-> Mid(NLon), area_size |-> 1, case_name |-> "case",
      ERA5_path |-> path, start_date |-> w[1], end_date |-> w[1] + w[2]] :
        path \in {"era5/", "era5", "nodir"},
        w \in {<<DayHours + 3, 0>>, <<DayHours + 3, FcStart + DayHours * (NDays - 1)>>,
               <<DayHours + 12, 0>>}}

isdir(path) == path # "nodir"

WithSlash(path) == IF path = "era5" THEN "era5/" ELSE path

\* the files of an experiment that may be on disk before the call
LocalFiles(s) ==
    LET required == Required(get_required_analysis(s.start_date, s.end_date),
                             get_required_forecast(s.start_date, s.end_date))
    IN  {ERA5_file_path(required[n][1], "era5/", s.case_name, required[n][2]) :
            n \in 1..Len(required)}

\* dict.copy(): a new object holding the entries of the object at ref
Copy_alias(objects, ref) == [heap |-> objects, ref |-> ref]

Copy(objects, ref) == [heap |-> Append(objects, objects[ref]), ref |-> Len(objects) + 1]

\* dict.update({'date': date, 'ftype': ftype})
Update(dict, date, ftype) == [date |-> date, ftype |-> ftype] @@ dict

\* the body of the two loops from the n-th required file on; q holds the
\* objects, the queue of references and the files found local
RECURSIVE Enqueue(_, _, _, _)
Enqueue(q, required, n, s) ==
    IF n > Len(required) THEN q
    ELSE LET date == required[n][1]
             ftype == required[n][2]
             file_name == ERA5_file_path(date, s.ERA5_path, s.case_name, ftype)
             c == Copy(q.heap, 1)
         IN  IF file_name \in disk
             THEN Enqueue([q EXCEPT !.found = @ \cup {<<date, ftype>>}], required, n + 1, s)
             ELSE Enqueue([q EXCEPT !.heap = [c.heap EXCEPT ![c.ref] = Update(@, date, ftype)],
                                    !.queue = Append(@, c.ref)], required, n + 1, s)

\* Pool.map: the items are sent to the workers in chunks
Chunks(items) ==
    LET n == Len(items)
        chunksize == (n \div (Processes * 4)) + (IF n % (Processes * 4) # 0 THEN 1 ELSE 0)
    IN  IF n = 0 THEN <<>>
        ELSE [k \in 1..((n + chunksize - 1) \div chunksize) |->
                 SubSeq(items, (k - 1) * chunksize + 1,
                        IF k * chunksize < n THEN k * chunksize ELSE n)]

\* the standard output of a fresh process
Console == <<"console">>

\* print(line) with sys.stdout = stream
Write(out, stream, line) == out \cup {<<stream, line>>}

\* open(log_file, 'w')
Truncate(out, log_file) == {l \in out : l[1] # log_file}

InitDownload ==
    /\ settings \in DownloadSettings
    /\ disk \in {d \in SUBSET LocalFiles(settings) :
                    Cardinality(LocalFiles(settings) \ d) <= MaxQueue}
    /\ heap = <<>> /\ download_queue = <<>> /\ found = {}
    /\ tasks = <<>> /\ workers = EmptyBag /\ logs = {}
    /\ lats = Unset /\ self_i = Unset /\ self_j = Unset /\ fc = Unset
    /\ shape = [s |-> 2, u |-> "var", v |-> "var"]
    /\ files = Unset /\ e5 = Unset /\ stage = "none"
    /\ NoResults /\ threads = <<>>

\* download_ERA5(settings): the queue of the files that are not local, and
\* the pool that maps download_ERA5_file over it
download_ERA5 ==
    /\ logs = {}
    /\ IF ~isdir(settings.ERA5_path)
       THEN /\ logs' = {<<Console, <<"header">>>>, <<Console, <<"error">>>>}
            /\ UNCHANGED <<settings, heap, download_queue, found, tasks, workers>>
       ELSE LET s == [settings EXCEPT !.ERA5_path = WithSlash(@)]
                download_settings == [lat |-> s.central_lat, lon |-> s.central_lon,
                                      size |-> s.area_size, path |-> s.ERA5_path,
                                      case |-> s.case_name]
                q == Enqueue([heap |-> <<download_settings>>, queue |-> <<>>, found |-> {}],
                             Required(get_required_analysis(s.start_date, s.end_date),
                                      get_required_forecast(s.start_date, s.end_date)), 1, s)
            IN  /\ settings' = s
                /\ heap' = q.heap /\ download_queue' = q.queue /\ found' = q.found
                /\ logs' = {<<Console, <<"header">>>>}
                             \cup {<<Console, <<"Found", f[1], f[2]>>>> : f \in q.found}
                /\ tasks' = Chunks([n \in 1..Len(q.queue) |-> q.heap[q.queue[n]]])
                /\ workers' = [wk \in {[chunk |-> <<>>, retrieving |-> FALSE,
                                          stdout |-> Console, old_stdout |-> Unset]} |->
                                   Processes]
    /\ UNCHANGED <<disk, lats, self_i, self_j, fc, shape, results, frame, last, ncalls,
                   threads, reader>>

Others == <<dataset, results, frame, last, ncalls, threads, reader>>

\* the processes of the pool differ by their state only: one of them in the
\* state wk moves to the state to
Becomes(wk, to) == (workers (-) SetToBag({wk})) (+) SetToBag({to})

\* an idle worker of the pool takes the next chunk
TakeTask(wk) ==
    /\ wk.chunk = <<>> /\ tasks # <<>>
    /\ workers' = Becomes(wk, [wk EXCEPT !.chunk = Head(tasks)])
    /\ tasks' = Tail(tasks)
    /\ UNCHANGED <<disk, heap, download_queue, found, logs, Others>>

\* the NetCDF file of an item
nc_file(item) == ERA5_file_path(item.date, item.path, item.case, item.ftype)

log_file(item) == Append(nc_file(item), "log")

\* download_ERA5_file(settings) up to the request: the message, and the
\* standard output of the process redirected to the log file
Request(wk) ==
    /\ wk.chunk # <<>> /\ ~wk.retrieving
    /\ LET item == Head(wk.chunk)
       IN  /\ logs' = Truncate(Write(logs, wk.stdout, <<"Downloading", item.date, item.ftype>>),
                               log_file(item))
           /\ workers' = Becomes(wk, [wk EXCEPT !.old_stdout = wk.stdout,
                                                !.stdout = log_file(item),
                                                !.retrieving = TRUE])
    /\ UNCHANGED <<disk, heap, download_queue, found, tasks, Others>>

\* server.retrieve(request) returns: the file is written, the standard
\* output is restored and the message is printed
Retrieved(wk) ==
    /\ wk.retrieving
    /\ LET item == Head(wk.chunk)
       IN  /\ disk' = disk \cup {nc_file(item)}
           /\ logs' = Write(Write(logs, wk.stdout, <<"api", item.date, item.ftype>>),
                            wk.old_stdout, <<"Finished", item.date, item.ftype>>)
           /\ workers' = Becomes(wk, [wk EXCEPT !.stdout = wk.old_stdout,
                                                !.old_stdout = Unset,
                                                !.retrieving = FALSE,
                                                !.chunk = Tail(@)])
    /\ UNCHANGED <<heap, download_queue, found, tasks, Others>>

\* the items whose retrieval has raised: begun, not in flight, no file
Raised ==
    {n \in 1..Len(download_queue) :
        /\ \E l \in logs : l[2] = <<"Downloading", heap[download_queue[n]].date,
                                     heap[download_queue[n]].ftype>>
        /\ \A wk \in BagToSet(workers) :
              wk.retrieving => Head(wk.chunk) # heap[download_queue[n]]
        /\ nc_file(heap[download_queue[n]]) \notin disk}

\* server.retrieve(request) raises: the call ends there, and so does the
\* chunk of the worker
RetrieveRaises(wk) ==
    /\ wk.retrieving
    /\ Cardinality(Raised) < MaxRaises
    /\ workers' = Becomes(wk, [wk EXCEPT !.old_stdout = Unset,
                                         !.retrieving = FALSE,
                                         !.chunk = <<>>])
    /\ UNCHANGED <<disk, heap, download_queue, found, tasks, logs, Others>>

NextDownload ==
    \/ download_ERA5
    \/ \E wk \in BagToSet(workers) : TakeTask(wk)
    \/ \E wk \in BagToSet(workers) : Request(wk)
    \/ \E wk \in BagToSet(workers) : Retrieved(wk)
    \/ \E wk \in BagToSet(workers) : RetrieveRaises(wk)

SpecDownload == InitDownload /\ [][NextDownload]_vars

\* ------------------------------------------------------------- properties
\* the stencil margin of a method, and whether the window of a call extended
\* by the margin lies within the horizontal grid on all four sides
Margin(method) == IF method = "2nd" THEN 1 ELSE 2

Fits(n_av, method) ==
    /\ self_i - n_av - Margin(method) >= 0 /\ self_i + n_av + Margin(method) <= NLon - 1
    /\ self_j - n_av - Margin(method) >= 0 /\ self_j + n_av + Margin(method) <= NLat - 1

Called == last.outcome # "none"

Succeeded == last.outcome = "ok"

\* the index step toward the north
NorthStep == IF lats[1] > lats[0] THEN 1 ELSE -1

\* centered differences of S toward the east and toward the north at (jj, ii)
EastDiff(S, t, k, jj, ii, method) ==
    IF method = "2nd"
    THEN RDiv(RSub(Field(S, t, k, jj, ii + 1), Field(S, t, k, jj, ii - 1)), RMul(R(2), dx))
    ELSE RDiv(RSub(RAdd(RSub(Field(S, t, k, jj, ii - 2), RMul(R(8), Field(S, t, k, jj, ii - 1))),
                        RMul(R(8), Field(S, t, k, jj, ii + 1))), Field(S, t, k, jj, ii + 2)),
              RMul(R(12), dx))

NorthDiff(S, t, k, jj, ii, method, n) ==
    IF method = "2nd"
    THEN RDiv(RSub(Field(S, t, k, jj + n, ii), Field(S, t, k, jj - n, ii)), RMul(R(2), dy))
    ELSE RDiv(RSub(RAdd(RSub(Field(S, t, k, jj - 2 * n, ii), RMul(R(8), Field(S, t, k, jj - n, ii))),
                        RMul(R(8), Field(S, t, k, jj + n, ii))), Field(S, t, k, jj + 2 * n, ii)),
              RMul(R(12), dy))

\* -u*(dS/dx) - v*(dS/dy) at (jj, ii)
UGradS(S, t, k, jj, ii, method) ==
    RSub(RMul(RNeg(u(t, k, jj, ii)), EastDiff(S, t, k, jj, ii, method)),
         RMul(v(t, k, jj, ii), NorthDiff(S, t, k, jj, ii, method, NorthStep)))

\* its arithmetic mean over the (2*n_av+1)^2 points of the window
MeanUGradS(S, n_av, method) ==
    [t \in Times |-> [k \in Levels |->
        MeanOf([m \in 1..((2 * n_av + 1) * (2 * n_av + 1)) |->
                   UGradS(S, t, k, self_j - n_av + ((m - 1) \div (2 * n_av + 1)),
                                  self_i - n_av + ((m - 1) % (2 * n_av + 1)), method)],
               (2 * n_av + 1) * (2 * n_av + 1))]]

\* C1: after a call with method '2nd' or '4th' whose window and margin fit the
\* grid, the advective tendency stored for each of thl, qt, u, v is the mean
\* over the window of -u*(dS/dx) - v*(dS/dy), the derivatives being centered
\* differences toward the east and toward the north
C1_AdvecIsMeanOfUGradS ==
    (Succeeded /\ last.n_av >= 0 /\ Fits(last.n_av, last.method)) =>
        /\ dtthl_advec = MeanUGradS("thl", last.n_av, last.method)
        /\ dtqt_advec = MeanUGradS("qt", last.n_av, last.method)
        /\ dtu_advec = MeanUGradS("u", last.n_av, last.method)
        /\ dtv_advec = MeanUGradS("v", last.n_av, last.method)

\* C2: a call whose window extended by the stencil margin leaves the grid on
\* any side fails with a ConfigurationError
C2_OutOfGridIsConfigurationError ==
    (Called /\ last.method \in {"2nd", "4th"} /\ ~Fits(last.n_av, last.method)) =>
        last.outcome = "ConfigurationError"

\* C3: a call with a method other than '2nd' or '4th' fails with an
\* unsupported-method error before any mean value or forcing term is computed
C3_UnsupportedMethodRejectedFirst ==
    [][(ncalls' = ncalls + 1 /\ last'.method \notin {"2nd", "4th"}) =>
           (last'.outcome = "UnsupportedMethodError" /\ results' = results)]_vars

\* the attributes of an instance on which nothing was calculated yet
Fresh ==
    [z_mean |-> Unset, p_mean |-> Unset, thl_mean |-> Unset, qt_mean |-> Unset,
     u_mean |-> Unset, v_mean |-> Unset,
     dtthl_advec |-> Unset, dtqt_advec |-> Unset, dtu_advec |-> Unset, dtv_advec |-> Unset,
     ug |-> Unset, vg |-> Unset, dtu_coriolis |-> Unset, dtv_coriolis |-> Unset]

\* the result set a call with the arguments of rq leaves when it runs alone
Alone(rq) == Exec(Fresh, rq.n_av, rq.method).self

\* C4: a call that fails leaves every result attribute as it was before the call
C4_FailedCallLeavesResults ==
    [][(ncalls' = ncalls + 1 /\ last'.outcome # "ok") => results' = results]_vars

\* C5: of two calls with different arguments running concurrently on the same
\* loaded dataset, each one that completes delivers the result set it produces
\* when run alone
C5_ConcurrentEqualsAlone ==
    \A th \in DOMAIN threads :
        threads[th].outcome = "ok" => threads[th].delivered = Alone(threads[th])

\* a field that has the same value at every grid point, at each time and level
Uniformly(F, lev) ==
    \A t \in Times, k \in lev, jj \in 0..(NLat - 1), ii \in 0..(NLon - 1) : Field(F, t, k, jj, ii) = Field(F, t, k, 0, 0)

\* a field that is a + sl.x * x + sl.y * y (x metres east, y metres north)
Linearly(F, lev, sl) ==
    \A t \in Times, k \in lev, jj \in 0..(NLat - 1), ii \in 0..(NLon - 1) :
        Field(F, t, k, jj, ii) = R(Field(F, t, k, 0, 0)[1] + sl.x * (X(ii) - X(0)) + sl.y * (Y(jj) - Y(0)))

Zero(arr, lev) == \A t \in Times, k \in lev : arr[t][k] = R(0)

\* the positions of the window points within the window
WindowPoints(n_av) == (1..(2 * n_av + 1)) \X (1..(2 * n_av + 1))

UniformAdvecZero ==
    /\ Uniformly("thl", Levels) => Zero(dtthl_advec, Levels)
    /\ Uniformly("qt", Levels) => Zero(dtqt_advec, Levels)
    /\ Uniformly("u", Levels) => Zero(dtu_advec, Levels)
    /\ Uniformly("v", Levels) => Zero(dtv_advec, Levels)

UniformGeoZero == Uniformly("z_p", PLevels) => (Zero(ug_p, PLevels) /\ Zero(vg_p, PLevels))

DerivativesAre(S, lev, sl, w, n_av) ==
    \A t \in Times, k \in lev, ab \in WindowPoints(n_av) :
        /\ Norm(ddx2(S, t, k, w, ab[1], ab[2], dx)) = R(sl.x)
        /\ Norm(ddy2(S, t, k, w, ab[1], ab[2], dy)) = R(sl.y)

\* C7: for a field that is linear in x (east) and y (north), the derivatives
\* method '2nd' uses are the field's gradient (bx, by) at every window point,
\* for every n_av that fits and either orientation of the latitude axis; dx
\* and dy are half the distance between the two neighbours of the centre
C7_LinearFieldGradient ==
    (Succeeded /\ last.method = "2nd" /\ Fits(last.n_av, last.method)) =>
        /\ Linearly("thl", Levels, Slope.thl) =>
               DerivativesAre("thl", Levels, Slope.thl, Views(Window(last.n_av)), last.n_av)
        /\ Linearly("qt", Levels, Slope.qt) =>
               DerivativesAre("qt", Levels, Slope.qt, Views(Window(last.n_av)), last.n_av)
        /\ Linearly("z_p", PLevels, Slope.z_p) =>
               DerivativesAre("z_p", PLevels, Slope.z_p, Views(Window(last.n_av)), last.n_av)
        /\ dx = Rat(Abs(X(self_i + 1) - X(self_i - 1)), 2)
        /\ dy = Rat(Abs(Y(self_j + 1) - Y(self_j - 1)), 2)

\* C8: with v = 0 everywhere and u uniform, a call with n_av = 0 and method
\* '2nd' gives a scalar of constant x-gradient c the advective tendency -u*c;
\* with the wind doubled the tendency is twice that of the single wind
C8_TendencyIsMinusUTimesGradient ==
    (/\ Succeeded /\ last.n_av = 0 /\ last.method = "2nd" /\ Fits(0, "2nd")
     /\ Uniformly("u", Levels) /\ Uniformly("v", Levels) /\ v(0, 0, 0, 0) = R(0) /\ Zero(v_mean, Levels)) =>
        \A t \in Times, k \in Levels :
            /\ Linearly("thl", Levels, Slope.thl) =>
                   /\ dtthl_advec[t][k] = Norm(RMul(RNeg(u(t, k, self_j, self_i)), R(Slope.thl.x)))
                   /\ shape.u = "uni2" =>
                          dtthl_advec[t][k] =
                              Norm(RMul(R(2), RMul(RNeg(UField("uni1", t, k, self_j, self_i)), R(Slope.thl.x))))
            /\ Linearly("qt", Levels, Slope.qt) =>
                   /\ dtqt_advec[t][k] = Norm(RMul(RNeg(u(t, k, self_j, self_i)), R(Slope.qt.x)))
                   /\ shape.u = "uni2" =>
                          dtqt_advec[t][k] =
                              Norm(RMul(R(2), RMul(RNeg(UField("uni1", t, k, self_j, self_i)), R(Slope.qt.x))))

C8_Witness ==
    /\ Succeeded /\ last.n_av = 0 /\ last.method = "2nd" /\ Fits(0, "2nd")
    /\ shape.u = "uni2" /\ Zero(v_mean, Levels) /\ Linearly("thl", Levels, Slope.thl)
    /\ dtthl_advec[0][0] = R(-2 * Slope.thl.x)

\* (x, y) lies on the straight line through (x1, y1) and (x2, y2)
OnLine(x1, y1, x2, y2, x, y) ==
    Norm(RMul(RSub(y, y1), RSub(x2, x1))) = Norm(RMul(RSub(y2, y1), RSub(x, x1)))

\* row t of the model-level wind g is row t of the pressure-level wind g_p
\* taken at the pressures p_mean[t]: the node's value at a node, on the line
\* through the two bracketing nodes between nodes, and on the line through
\* the two nearest nodes outside the range of p_p
InterpolatedRow(g, g_p, t) ==
    \A k \in Levels :
        /\ \A m \in PLevels : p_mean[t][k] = p_p[m] => g[t][k] = g_p[t][m]
        /\ \A m \in 0..(NPres - 2) :
               (RLess(p_p[m + 1], p_mean[t][k]) /\ RLess(p_mean[t][k], p_p[m])) =>
                   OnLine(p_p[m + 1], g_p[t][m + 1], p_p[m], g_p[t][m], p_mean[t][k], g[t][k])
        /\ RLess(p_p[0], p_mean[t][k]) =>
               OnLine(p_p[1], g_p[t][1], p_p[0], g_p[t][0], p_mean[t][k], g[t][k])
        /\ RLess(p_mean[t][k], p_p[NPres - 1]) =>
               OnLine(p_p[NPres - 2], g_p[t][NPres - 2], p_p[NPres - 1], g_p[t][NPres - 1],
                      p_mean[t][k], g[t][k])

\* C9: after a successful call, for each time step t the model-level
\* geostrophic wind ug[t,:], vg[t,:] is the interpolation of ug_p[t,:],
\* vg_p[t,:] at p_mean[t,:]: equal to the node's value where p_mean equals a
\* pressure level, and linearly extrapolated from the two nearest pressure
\* levels where p_mean is outside their range
C9_InterpolationPerTimeStep ==
    Succeeded => \A t \in Times : InterpolatedRow(ug, ug_p, t) /\ InterpolatedRow(vg, vg_p, t)

C9_Witness ==
    /\ Succeeded
    /\ \E t \in Times, k \in Levels, m \in 1..(NPres - 1) :
           /\ p_mean[t][k] = p_p[m] /\ ug[t][k] = ug_p[t][m]
           /\ ~IsNaN(ug_p[t][m]) /\ ug_p[t][m] # ug_p[t][m - 1]
    /\ \E t \in Times, k \in Levels :
           /\ RLess(p_p[0], p_mean[t][k])
           /\ ~IsNaN(ug[t][k]) /\ ug[t][k] \notin {ug_p[t][m] : m \in PLevels}
    /\ \E k \in Levels : ug_p[0] # ug_p[1] /\ p_mean[0][k] # p_mean[1][k]

\* C10: after a successful call, at every time and level dtu_coriolis is
\* +fc*(v_mean - vg) and dtv_coriolis is -fc*(u_mean - ug), with u_mean and
\* v_mean the window means of that call
C10_CoriolisTendency ==
    Succeeded =>
        /\ u_mean = WindowMean("u", last.n_av) /\ v_mean = WindowMean("v", last.n_av)
        /\ \A t \in Times, k \in Levels :
               /\ dtu_coriolis[t][k] = Norm(RMul(fc, RSub(v_mean[t][k], vg[t][k])))
               /\ dtv_coriolis[t][k] = Norm(RMul(RNeg(fc), RSub(u_mean[t][k], ug[t][k])))

C10_Witness ==
    /\ Succeeded /\ fc # R(0)
    /\ ~IsNaN(dtu_coriolis[0][0]) /\ dtu_coriolis[0][0] # R(0)
    /\ ~IsNaN(dtv_coriolis[0][0]) /\ dtv_coriolis[0][0] # R(0)
    /\ u_mean[0][0] # ug[0][0] /\ v_mean[0][0] # vg[0][0]

\* the geostrophic wind at (jj, ii) on pressure level m, for the Coriolis
\* parameter f:  -(g/f)*(dZ/dy)  and  +(g/f)*(dZ/dx),  x east and y north
GeoU(t, m, jj, ii, method, f) ==
    RMul(RDiv(RNeg(R(Grav)), f), NorthDiff("z_p", t, m, jj, ii, method, NorthStep))

GeoV(t, m, jj, ii, method, f) ==
    RMul(RDiv(R(Grav), f), EastDiff("z_p", t, m, jj, ii, method))

\* their arithmetic means over the (2*n_av+1)^2 points of the window
MeanGeoU(n_av, method, f) ==
    [t \in Times |-> [m \in PLevels |->
        MeanOf([q \in 1..((2 * n_av + 1) * (2 * n_av + 1)) |->
                   GeoU(t, m, self_j - n_av + ((q - 1) \div (2 * n_av + 1)),
                              self_i - n_av + ((q - 1) % (2 * n_av + 1)), method, f)],
               (2 * n_av + 1) * (2 * n_av + 1))]]

MeanGeoV(n_av, method, f) ==
    [t \in Times |-> [m \in PLevels |->
        MeanOf([q \in 1..((2 * n_av + 1) * (2 * n_av + 1)) |->
                   GeoV(t, m, self_j - n_av + ((q - 1) \div (2 * n_av + 1)),
                              self_i - n_av + ((q - 1) % (2 * n_av + 1)), method, f)],
               (2 * n_av + 1) * (2 * n_av + 1))]]

\* C11: after a call with method '2nd' or '4th' whose window and margin fit the
\* grid, the geostrophic wind on the pressure levels is the mean over the
\* window of ug_p = -(g/f)*(dZ/dy) and vg_p = +(g/f)*(dZ/dx), the derivatives
\* being the centered differences of the order of the call's method and f
\* the Coriolis parameter at the latitude lats[j] of the centre grid point
C11_GeostrophicWind ==
    (Succeeded /\ last.n_av >= 0 /\ Fits(last.n_av, last.method)) =>
        /\ ug_p = MeanGeoU(last.n_av, last.method, Coriolis(lats[self_j]))
        /\ vg_p = MeanGeoV(last.n_av, last.method, Coriolis(lats[self_j]))

\* the latitudes a centre can be requested at, in whole degrees
Latitudes == -90..90

\* every geostrophic wind component on the pressure levels is not finite
NotFinite(g_p) == \A t \in Times, m \in PLevels : IsNaN(g_p[t][m])

\* C12: the Coriolis parameter stored at construction is 2*Omega*sin(lat) of
\* the requested central latitude: strictly positive for a latitude in
\* (0, 90], strictly negative for a latitude in [-90, 0), Omega at 30 degrees
\* and 2*Omega at 90 degrees, of opposite sign and equal magnitude at opposite
\* latitudes, and zero only at latitude 0, where the geostrophic wind of a
\* call that completes is not finite
C12_CoriolisSign ==
    /\ fc = Norm(RMul(R(2 * Omega), SinDeg(settings.central_lat)))
    /\ settings.central_lat > 0 => RLess(R(0), fc)
    /\ settings.central_lat < 0 => RLess(fc, R(0))
    /\ settings.central_lat \in {30, -30} => RAbs(fc) = R(Omega)
    /\ settings.central_lat \in {90, -90} => RAbs(fc) = R(2 * Omega)
    /\ fc = R(0) <=> settings.central_lat = 0
    /\ \A lat \in Latitudes :
           /\ lat > 0 => RLess(R(0), Coriolis(lat))
           /\ lat < 0 => RLess(Coriolis(lat), R(0))
           /\ Coriolis(-lat) = RNeg(Coriolis(lat))
           /\ Coriolis(lat) = R(0) <=> lat = 0
    /\ (Succeeded /\ last.n_av >= 0 /\ Fits(last.n_av, last.method)) =>
           IF fc = R(0) THEN NotFinite(ug_p) /\ NotFinite(vg_p)
           ELSE ~IsNaN(ug_p[0][0]) /\ ~IsNaN(vg_p[0][0])

C12_Witness ==
    /\ settings.central_lat < 0 /\ RLess(fc, R(0)) /\ RAbs(fc) = R(Omega)
    /\ Succeeded /\ Fits(last.n_av, last.method)
    /\ ~IsNaN(ug_p[0][0]) /\ ug_p[0][0] # R(0)

C12_WitnessEquator ==
    /\ settings.central_lat = 0 /\ fc = R(0)
    /\ Succeeded /\ Fits(last.n_av, last.method) /\ NotFinite(ug_p) /\ NotFinite(vg_p)

\* nothing of the fields is read or derived yet
NoFieldRead ==
    /\ e5.levs = Unset /\ e5.dTdt_sw = Unset /\ e5.ph = Unset /\ e5.zh = Unset
    /\ e5.p = Unset /\ e5.z = Unset /\ e5.dthldt_sw = Unset /\ fc = Unset

Between(x, a, b) ==
    \/ ~RLess(x, a) /\ ~RLess(b, x)
    \/ ~RLess(x, b) /\ ~RLess(a, x)

\* column c of the full-level array f is the mean of the bounding half levels h
MeanOfHalfLevels(f, h, c) ==
    /\ DOMAIN h[c] = 0..e5.nfull /\ DOMAIN f[c] = 0..(e5.nfull - 1)
    /\ \A k \in 0..(e5.nfull - 1) :
          /\ Norm(RMul(R(2), f[c][k])) = Norm(RAdd(h[c][k], h[c][k + 1]))
          /\ Between(f[c][k], h[c][k], h[c][k + 1])

\* C15: once the constructor has derived the full levels, ph and zh have
\* nfull+1 entries along the level axis and every full-level array has nfull;
\* at every time, level k and horizontal point p[k] = (ph[k] + ph[k+1])/2 and
\* z[k] = (zh[k] + zh[k+1])/2, each between its two bounding half-level values
C15_HalfAndFullLevels ==
    stage \in {"tendencies", "done"} =>
        /\ e5.nhalf = e5.nfull + 1
        /\ \A n \in DOMAIN e5.levs : e5.levs[n] = e5.nfull
        /\ \A c \in Cols(e5.ntime) : MeanOfHalfLevels(e5.p, e5.ph, c) /\ MeanOfHalfLevels(e5.z, e5.zh, c)

C15_Witness ==
    /\ stage = "done" /\ e5.nfull = NFull /\ e5.ntime > 1
    /\ \E c \in Cols(e5.ntime) : \A k \in 0..(e5.nfull - 1) :
          /\ RLess(e5.ph[c][k + 1], e5.p[c][k]) /\ RLess(e5.p[c][k], e5.ph[c][k])
          /\ RLess(e5.zh[c][k], e5.z[c][k]) /\ RLess(e5.z[c][k], e5.zh[c][k + 1])

\* C17: after a construction that succeeds, record k of the radiative
\* tendencies read from the forecast files is of the hour time[k] of the
\* analysis fields, also when the forecast files start at another hour than
\* the analysis files
C17_FieldsShareTimeAxis ==
    stage = "done" =>
        /\ Len(e5.dthldt_sw) = Len(e5.time)
        /\ \A m \in 1..Len(e5.time) :
              e5.dthldt_sw[m].fc_hour = e5.time[m] /\ e5.dthldt_sw[m].an_hour = e5.time[m]

\* C14: a call with a negative n_av fails with a ConfigurationError (and so
\* never completes with an empty averaging window and means over zero points)
C14_NegativeNavIsConfigurationError ==
    (Called /\ last.n_av < 0) => last.outcome = "ConfigurationError"

InFlight ==
    BagCardinality([wk \in {x \in BagToSet(workers) : x.retrieving} |-> workers[wk]])

\* the parallel requests the server allows
Parallel == 3

\* C18: while download_ERA5 works through its queue, at no moment are more
\* than 3 requests in flight
C18_AtMostThreeInFlight == InFlight <= Parallel

\* the queue is built
QueueBuilt == heap # <<>>

\* download_ERA5 has built the queue and no worker has taken a chunk of it:
\* the disk is as it was when the files were looked for

NotStarted ==
    /\ QueueBuilt
    /\ tasks # <<>> \/ download_queue = <<>>
    /\ \A wk \in BagToSet(workers) : wk.chunk = <<>>
    /\ \A l \in logs : l[2][1] \in {"header", "Found"}

RequiredPairs ==
    LET required == Required(get_required_analysis(settings.start_date, settings.end_date),
                             get_required_forecast(settings.start_date, settings.end_date))
    IN  {required[n] : n \in 1..Len(required)}

\* the places of the queue that hold the pair f
QueuedAt(f) ==
    {n \in 1..Len(download_queue) :
        heap[download_queue[n]].date = f[1] /\ heap[download_queue[n]].ftype = f[2]}

\* the workers with a request in flight
Retrieving == {wk \in BagToSet(workers) : wk.retrieving}

\* C19: the queue that download_ERA5 has built holds exactly the required
\* files that are not on disk when they are looked for, each once; no two
\* items have the same destination file; every item is a copy of its own of
\* the base settings; and no two workers ever write the same file
C19_QueueIsTheMissingFiles ==
    /\ NotStarted =>
          /\ \A f \in RequiredPairs :
                /\ Cardinality(QueuedAt(f)) = IF f \in found THEN 0 ELSE 1
                /\ f \in found <=>
                      ERA5_file_path(f[1], settings.ERA5_path, settings.case_name, f[2]) \in disk
          /\ \A n \in 1..Len(download_queue) :
                /\ <<heap[download_queue[n]].date, heap[download_queue[n]].ftype>> \in RequiredPairs
                /\ download_queue[n] # 1
                /\ heap[download_queue[n]] =
                      Update(heap[1], heap[download_queue[n]].date, heap[download_queue[n]].ftype)
                /\ \A m \in 1..Len(download_queue) :
                      m # n =>
                          /\ download_queue[m] # download_queue[n]
                          /\ nc_file(heap[download_queue[m]]) # nc_file(heap[download_queue[n]])
          /\ DOMAIN heap[1] = {"lat", "lon", "size", "path", "case"}
    /\ \A wk \in Retrieving :
          /\ workers[wk] = 1
          /\ \A other \in Retrieving :
                other # wk => nc_file(Head(other.chunk)) # nc_file(Head(wk.chunk))

\* some files are found on disk, others are queued, and two workers are
\* downloading at the same time
C19_Witness ==
    /\ QueueBuilt
    /\ found # {} /\ Len(download_queue) >= 2
    /\ Cardinality(Retrieving) >= 2

\* C20: whenever a call of download_ERA5_file has ended, the standard output
\* of the worker is the stream it was before the call, so a worker between
\* two items writes to the console, and a log file holds the output of the
\* retrieval of its own item only
C20_StdoutRestoredAfterCall ==
    /\ \A wk \in BagToSet(workers) : ~wk.retrieving => wk.stdout = Console
    /\ \A l \in logs :
          l[1] # Console =>
              /\ l[2][1] = "api"
              /\ l[1] = Append(ERA5_file_path(l[2][2], settings.ERA5_path,
                                              settings.case_name, l[2][3]), "log")
====
